---- MODULE Spec2Model ----
(***************************************************************************)
(* The S&P 500 month-to-date pipeline of nickumia/omaha:                   *)
(*   - the web server and its cached snapshot (Server, handleAPI,          *)
(*     handleIndex, handleRefresh, UpdateResults),                         *)
(*   - getMTDResults with its own worker pool over channels,               *)
(*   - the generic executor ProcessInParallel and the getMTDResults        *)
(*     that drives it under a context with a deadline,                     *)
(*   - the return calculator getMTDReturn on its own (SpecCalc),           *)
(*   - the window of a refresh request: the query parameters, the default  *)
(*     date and getMonthRange (SpecWindow).                                *)
(* Goroutines are interleaved one statement group at a time.  The workers  *)
(* of a pool are anonymous and identical, so a pool is kept as the number  *)
(* of workers waiting on the jobs channel and the bag of jobs in flight.   *)
(***************************************************************************)
EXTENDS Bags, FiniteSets, Integers, Sequences, TLC

\* ------------------------------------------------------------------ bounds
\* Longest ticker list the scraped page yields (besides the long page).
MaxTickers == 2
\* runtime.NumCPU() of the machine the server runs on.
NumCPU == 1

\* Longest bar sequence the calculator is run on.
MaxBars == 3
\* Longest item list ProcessInParallel is given on its own.
MaxItems == 6
\* Largest maxWorkers, positive or negative, ProcessInParallel is asked for.
MaxRequested == 6

\* ------------------------------------------------------- program constants
maxErrors == 20
maxWorkers == 10

\* ------------------------------------------------------------- input sets
Refreshers == {"r1", "r2"}
Readers == {"handleAPI", "handleIndex"}
Symbols == {"A", "B"}
\* What the market-data provider answers for one symbol: a failed chart
\* request (iter.Err() # nil), or the close prices of the bars, oldest first.
FetchErr == [fail |-> TRUE, bars |-> <<>>]
Bars(b) == [fail |-> FALSE, bars |-> b]
\* The provider tables a behaviour may run against: two different returns; a
\* failed request; no bars and a zero first close; two equal returns.
Providers ==
    {[A |-> Bars(<<1, 2>>), B |-> Bars(<<2, 1>>)],
     [A |-> FetchErr, B |-> Bars(<<1, 2>>)],
     [A |-> Bars(<<>>), B |-> Bars(<<0, 1>>)],
     [A |-> Bars(<<1, 2>>), B |-> Bars(<<2, 4>>)]}

\* The close prices a bar may carry (their quotients are exact in decimal
\* and in float64), the bar sequences, and the answers of the provider: the
\* bars it yields and whether the request ends in an error.
Closes == {0, 1, 2, 4}
BarSeqs == UNION {[1..n -> Closes] : n \in 0..MaxBars}
Answers == [fail : BOOLEAN, bars : BarSeqs]

\* ------------------------------------------------------------ Go values
\* A Go slice value: nil, or a backing array.
NilSlice == [nil |-> TRUE, elems |-> <<>>]
MkSlice(s) == [nil |-> FALSE, elems |-> s]
\* append(s, x)
AppendSlice(s, x) == MkSlice(Append(s.elems, x))
\* make(map[string]...)
EmptyMap == [k \in {} |-> 0]
\* error values are strings, "" is the nil error
NoErr == ""

RECURSIVE GCD(_, _)
GCD(a, b) == IF b = 0 THEN a ELSE GCD(b, a % b)
Abs(n) == IF n < 0 THEN -n ELSE n
\* A return value: the exact quotient num/den in lowest terms, den > 0; NaN
\* (den = 0) stays NaN through every operation.
Rat(n, d) ==
    IF d = 0 THEN [num |-> 0, den |-> 0]
    ELSE LET g == GCD(Abs(n), d) IN [num |-> n \div g, den |-> d \div g]
RatZero == [num |-> 0, den |-> 1]
RatAdd(a, b) == Rat(a.num * b.den + b.num * a.den, a.den * b.den)
RatSub(a, b) == Rat(a.num * b.den - b.num * a.den, a.den * b.den)
RatDivInt(a, k) == Rat(a.num, a.den * k)
\* a > b
RatGT(a, b) == a.num * b.den > b.num * a.den
\* math.NaN()
NaN == [num |-> 0, den |-> 0]

\* decimal.Decimal.String() of a whole number
DecString(n) ==
    IF n \in 0..9
    THEN <<"0", "1", "2", "3", "4", "5", "6", "7", "8", "9">>[n + 1]
    ELSE "big"

Min(a, b) == IF a < b THEN a ELSE b

\* The elements of a sequence, as a set.
Range(s) == {s[i] : i \in 1..Len(s)}
\* s without its element at position i
RemoveAt(s, i) == SubSeq(s, 1, i - 1) \o SubSeq(s, i + 1, Len(s))
\* The bag of a sequence's elements.
RECURSIVE SeqToBag(_)
SeqToBag(s) ==
    IF s = <<>> THEN EmptyBag ELSE SetToBag({Head(s)}) (+) SeqToBag(Tail(s))

\* ------------------------------------------------------------ the scraper
\* The rows of the scraped table, first column and third column: the header
\* row and one row per symbol.
RawRows ==
    {[ticker |-> "Symbol", sector |-> "GICS Sector"],
     [ticker |-> "A", sector |-> "Tech"],
     [ticker |-> "B", sector |-> ""]}
\* The rows OnHTML keeps.
ValidTicker(t) == t # "" /\ t # "Symbol" /\ Len(t) < 10
RECURSIVE KeepRows(_)
KeepRows(rows) ==
    IF rows = <<>> THEN <<>>
    ELSE IF ValidTicker(Head(rows).ticker)
         THEN <<Head(rows)>> \o KeepRows(Tail(rows))
         ELSE KeepRows(Tail(rows))
\* The long page: more rows of one symbol than maxErrors.
LongPage == [i \in 1..(maxErrors + 1) |-> [ticker |-> "A", sector |-> "Tech"]]
\* The short pages: up to MaxTickers rows.
ShortPages == UNION {[1..n -> RawRows] : n \in 0..MaxTickers}
\* The rows of a table whose symbols share one sector, and its short pages.
SectorRows ==
    {[ticker |-> "Symbol", sector |-> "GICS Sector"],
     [ticker |-> "A", sector |-> "Tech"],
     [ticker |-> "B", sector |-> "Tech"]}
SectorPages == UNION {[1..n -> SectorRows] : n \in 0..MaxTickers}

\* ------------------------------------------------------- return calculator
\* getMTDReturn on the provider's answer for the ticker.
ZeroMTD == [Return |-> RatZero, BarCount |-> 0, FirstClose |-> 0, LastClose |-> 0]
\* A calculator that reports no error when there is no bar or the first
\* close is zero.
getMTDReturnUnguarded(answer) ==
    LET b == answer.bars IN
    IF answer.fail
    THEN [res |-> [ZeroMTD EXCEPT !.Return = NaN], err |-> "fetch"]
    ELSE IF Len(b) = 0 \/ b[1] = 0
    THEN [res |-> [Return |-> NaN, BarCount |-> Len(b),
                   FirstClose |-> 0, LastClose |-> 0],
          err |-> NoErr]
    ELSE [res |-> [Return |-> Rat(b[Len(b)] - b[1], b[1]),
                   BarCount |-> Len(b),
                   FirstClose |-> b[1],
                   LastClose |-> b[Len(b)]],
          err |-> NoErr]
\* A calculator with an error of its own for a first close of zero.
getMTDReturnTwoErrors(answer) ==
    LET b == answer.bars IN
    IF answer.fail
    THEN [res |-> [ZeroMTD EXCEPT !.Return = NaN], err |-> "fetch"]
    ELSE IF Len(b) = 0
    THEN [res |-> [ZeroMTD EXCEPT !.Return = NaN], err |-> "no data"]
    ELSE IF b[1] = 0
    THEN [res |-> [ZeroMTD EXCEPT !.Return = NaN], err |-> "invalid first close"]
    ELSE [res |-> [Return |-> RatSub(Rat(b[Len(b)], b[1]), Rat(1, 1)),
                   BarCount |-> Len(b),
                   FirstClose |-> b[1],
                   LastClose |-> b[Len(b)]],
          err |-> NoErr]
\* A calculator that keeps the close of the last bar but one as lastClose.
getMTDReturnStaleLast(answer) ==
    LET b == answer.bars
        last == IF Len(b) > 1 THEN b[Len(b) - 1] ELSE b[Len(b)]
    IN
    IF answer.fail
    THEN [res |-> [ZeroMTD EXCEPT !.Return = NaN], err |-> "fetch"]
    ELSE IF Len(b) = 0 \/ b[1] = 0
    THEN [res |-> [ZeroMTD EXCEPT !.Return = NaN], err |-> "no data"]
    ELSE [res |-> [Return |-> RatSub(Rat(last, b[1]), Rat(1, 1)),
                   BarCount |-> Len(b),
                   FirstClose |-> b[1],
                   LastClose |-> last],
          err |-> NoErr]
\* getMTDReturn: the bars are read to their end, then the request's error is
\* looked at, then the guard, then lastClose.Div(firstClose).Sub(1).
getMTDReturn(answer) ==
    LET b == answer.bars IN
    IF answer.fail
    THEN [res |-> [ZeroMTD EXCEPT !.Return = NaN], err |-> "fetch"]
    ELSE IF Len(b) = 0 \/ b[1] = 0
    THEN [res |-> [ZeroMTD EXCEPT !.Return = NaN], err |-> "no data"]
    ELSE [res |-> [Return |-> RatSub(Rat(b[Len(b)], b[1]), Rat(1, 1)),
                   BarCount |-> Len(b),
                   FirstClose |-> b[1],
                   LastClose |-> b[Len(b)]],
          err |-> NoErr]

\* ------------------------------------------------------------------ state
VARIABLES
    alive,        \* the process runs (log.Fatalf ends it)
    provider,     \* the market data the provider holds, per symbol
    cfg,          \* the requests that may arrive and the pages a visit may find
    sresults,     \* Server.results, as the slice header a store writes
    muWriter,     \* Server.mu is held by a writer
    muReaders,    \* the number of readers holding Server.mu
    rpc,          \* per reader handler: its position
    robs,         \* per reader handler: what it read of Server.results
    errorCount,   \* the global scrape error counter
    seenErrors,   \* per refresh: the count its OnError logged and compared
    pc,           \* per refresh: its position
    tickers,      \* per refresh: the scraped tickers
    sectors,      \* per refresh: the scraped sectors
    sendIdx,      \* per refresh: the next item the sender sends
    jobs,         \* per refresh: the jobs channel
    jobsClosed,   \* per refresh: close(jobs) has run
    idle,         \* per refresh: workers waiting on the jobs channel
    busy,         \* per refresh: the bag of jobs inside the work function
    resultsCh,    \* per refresh: the results channel
    validResults, \* per refresh: the valid results collected
    errs,         \* per refresh: the errors collected
    sectorData,   \* per refresh: per sector, the total return and the count
    sectorReturns,\* per refresh: the sector averages, sorted
    ret,          \* per refresh: what getMTDResults returned
    resp,         \* per refresh: what the refresh endpoint answered
    ctx,          \* per refresh: the context of the call ("none" before it is made)
    wg,           \* per refresh: the WaitGroup counter of the executor
    resultsClosed,\* per refresh: the goroutine that closes results, and its close
    resultSlice,  \* per refresh: the executor's resultSlice
    installed,    \* history: the last snapshot UpdateResults finished installing
    calls,        \* history: per refresh, the bag of items given to the work function
    doneLive,     \* history: per refresh, the items whose work returned before the context was done
    answer,       \* calculator: the provider's answer getMTDReturn runs on
    mtd,          \* calculator: what getMTDReturn returned
    query,        \* window: the raw query parameters of a refresh request
    now,          \* window: time.Now() when getMTDResults runs
    args,         \* window: year, month and day, as parsed and then as defaulted
    window,       \* window: start and end, as getMonthRange returns them
    wpc,          \* window: the position of the request
    parArgs,      \* executor: len(items) and maxWorkers of a call of its own
    parStarted    \* executor: whether the workers are started, and how many

calcVars == <<answer, mtd>>
windowVars == <<query, now, args, window, wpc>>
startVars == <<parArgs, parStarted>>
fnVars == <<calcVars, windowVars, startVars>>

vars == <<alive, provider, cfg, fnVars, sresults, muWriter, muReaders, rpc, robs,
          errorCount, seenErrors, pc, tickers, sectors, sendIdx, jobs, jobsClosed, idle,
          busy, resultsCh, validResults, errs, sectorData, sectorReturns, ret,
          resp, ctx, wg, resultsClosed, resultSlice, installed, calls, doneLive>>

serverVars == <<sresults, muWriter, muReaders, rpc, robs, installed>>
poolVars == <<sendIdx, jobs, jobsClosed, idle, busy, resultsCh, calls>>
collectVars == <<validResults, errs, sectorData, sectorReturns>>
scrapeVars == <<tickers, sectors>>
parVars == <<ctx, wg, resultsClosed, resultSlice, doneLive>>

NoObs == [torn |-> FALSE, val |-> NilSlice]
NoResp == [status |-> 0, success |-> FALSE, body |-> ""]
NoRet == [results |-> NilSlice, err |-> NoErr]

\* NewServer: no results yet, nothing locked; no request has arrived.
InitCommon ==
    /\ alive = TRUE
    /\ provider \in Providers
    /\ sresults = [ptr |-> NilSlice, len |-> 0]
    /\ muWriter = FALSE
    /\ muReaders = 0
    /\ rpc = [c \in Readers |-> "idle"]
    /\ robs = [c \in Readers |-> NoObs]
    /\ errorCount = 0
    /\ seenErrors = [r \in Refreshers |-> 0]
    /\ pc = [r \in Refreshers |-> "idle"]
    /\ tickers = [r \in Refreshers |-> <<>>]
    /\ sectors = [r \in Refreshers |-> <<>>]
    /\ sendIdx = [r \in Refreshers |-> 0]
    /\ jobs = [r \in Refreshers |-> <<>>]
    /\ jobsClosed = [r \in Refreshers |-> FALSE]
    /\ idle = [r \in Refreshers |-> 0]
    /\ busy = [r \in Refreshers |-> EmptyBag]
    /\ resultsCh = [r \in Refreshers |-> <<>>]
    /\ validResults = [r \in Refreshers |-> NilSlice]
    /\ errs = [r \in Refreshers |-> <<>>]
    /\ sectorData = [r \in Refreshers |-> EmptyMap]
    /\ sectorReturns = [r \in Refreshers |-> NilSlice]
    /\ ret = [r \in Refreshers |-> NoRet]
    /\ resp = [r \in Refreshers |-> NoResp]
    /\ installed = NilSlice
    /\ calls = [r \in Refreshers |-> EmptyBag]
    /\ ctx = [r \in Refreshers |-> "none"]
    /\ wg = [r \in Refreshers |-> 0]
    /\ resultsClosed = [r \in Refreshers |-> "open"]
    /\ resultSlice = [r \in Refreshers |-> NilSlice]
    /\ doneLive = [r \in Refreshers |-> {}]

\* No calculator run and no window computation is under way.
NoAnswer == Bars(<<>>)
NoMTD == [res |-> ZeroMTD, err |-> "none"]
NoDate == [y |-> 0, m |-> 0, d |-> 0]
NoQuery == [year |-> <<>>, month |-> <<>>, day |-> <<>>]
NoArgs == [year |-> 0, month |-> 0, day |-> 0, lastMonth |-> NoDate]
NoWindow == [start |-> NoDate, end |-> NoDate]
CalcIdle ==
    /\ answer = NoAnswer
    /\ mtd = NoMTD
WindowIdle ==
    /\ query = NoQuery
    /\ now = NoDate
    /\ args = NoArgs
    /\ window = NoWindow
    /\ wpc = "off"
NoParArgs == [items |-> 0, maxWorkers |-> 0]
NoneStarted == [started |-> FALSE, workers |-> 0]
StartIdle ==
    /\ parArgs = NoParArgs
    /\ parStarted = NoneStarted
FnIdle == CalcIdle /\ WindowIdle /\ StartIdle

\* One refresh at a time next to one reader, over the short pages.
Init ==
    /\ InitCommon
    /\ FnIdle
    /\ cfg = [refreshers |-> {"r1"}, readers |-> Readers, pages |-> ShortPages]

\* ----------------------------------------------------------------- readers
\* What a reader gets from the header: the slice, or a torn header when the
\* pointer and the length belong to different stores.
View(h) == [torn |-> h.len # Len(h.ptr.elems), val |-> h.ptr]

\* json.NewEncoder(w).Encode of a []Result: a nil slice is written as null,
\* any other slice as an array of its elements; a NaN among the returns is
\* an error of the encoder.
EncodeJSON(v) ==
    IF \E i \in 1..Len(v.elems) : v.elems[i].Return = NaN
    THEN [err |-> TRUE, null |-> FALSE, array |-> <<>>]
    ELSE IF v.nil
    THEN [err |-> FALSE, null |-> TRUE, array |-> <<>>]
    ELSE [err |-> FALSE, null |-> FALSE, array |-> v.elems]

\* RLock that does not wait for a writer.
CanRLockIgnoringWriter == TRUE

\* RWMutex.RLock succeeds when no writer holds the lock and none waits for it.
CanRLock == ~muWriter /\ \A r \in Refreshers : pc[r] # "lock"

\* handleAPI / handleIndex: s.mu.RLock(), then s.results is evaluated as the
\* argument of Encode / Execute.
ReadLock(c) ==
    /\ alive
    /\ c \in cfg.readers
    /\ rpc[c] = "idle"
    /\ CanRLock
    /\ muReaders' = muReaders + 1
    /\ robs' = [robs EXCEPT ![c] = View(sresults)]
    /\ rpc' = [rpc EXCEPT ![c] = "reading"]
    /\ UNCHANGED <<alive, provider, cfg, fnVars, sresults, muWriter, installed,
                   errorCount, seenErrors, pc, scrapeVars, poolVars, collectVars, ret, resp>>
    /\ UNCHANGED parVars

\* The response is written; the deferred s.mu.RUnlock() runs.
ReadUnlock(c) ==
    /\ alive
    /\ rpc[c] = "reading"
    /\ muReaders' = muReaders - 1
    /\ rpc' = [rpc EXCEPT ![c] = "idle"]
    /\ robs' = [robs EXCEPT ![c] = NoObs]
    /\ UNCHANGED <<alive, provider, cfg, fnVars, sresults, muWriter, installed,
                   errorCount, seenErrors, pc, scrapeVars, poolVars, collectVars, ret, resp>>
    /\ UNCHANGED parVars

\* ------------------------------------------------- the refresh endpoint
Upd(f, r, v) == [f EXCEPT ![r] = v]

\* The goroutines of the refresh's previous call have all ended.
PoolEnded(r) ==
    /\ idle[r] = 0
    /\ busy[r] = EmptyBag
    /\ sendIdx[r] = 0 \/ jobsClosed[r]
    /\ resultsClosed[r] # "waiting"

\* handleRefresh: a request arrives and getMTDResults is called.  The locals
\* of the call start at their zero values.
HandleRefresh(r) ==
    /\ alive
    /\ r \in cfg.refreshers
    /\ pc[r] = "idle"
    /\ PoolEnded(r)
    /\ pc' = Upd(pc, r, "tickers")
    /\ tickers' = Upd(tickers, r, <<>>)
    /\ sectors' = Upd(sectors, r, <<>>)
    /\ sendIdx' = Upd(sendIdx, r, 0)
    /\ jobs' = Upd(jobs, r, <<>>)
    /\ jobsClosed' = Upd(jobsClosed, r, FALSE)
    /\ resultsCh' = Upd(resultsCh, r, <<>>)
    /\ validResults' = Upd(validResults, r, NilSlice)
    /\ errs' = Upd(errs, r, <<>>)
    /\ sectorData' = Upd(sectorData, r, EmptyMap)
    /\ sectorReturns' = Upd(sectorReturns, r, NilSlice)
    /\ ret' = Upd(ret, r, NoRet)
    /\ resp' = Upd(resp, r, NoResp)
    /\ calls' = Upd(calls, r, EmptyBag)
    /\ ctx' = Upd(ctx, r, "none")
    /\ wg' = Upd(wg, r, 0)
    /\ resultsClosed' = Upd(resultsClosed, r, "open")
    /\ resultSlice' = Upd(resultSlice, r, NilSlice)
    /\ doneLive' = Upd(doneLive, r, {})
    /\ seenErrors' = Upd(seenErrors, r, 0)
    /\ UNCHANGED <<alive, provider, cfg, fnVars, serverVars, errorCount, idle, busy>>

\* getSP500Tickers: the global error counter is reset.
ScrapeReset(r) ==
    /\ alive
    /\ pc[r] = "tickers"
    /\ errorCount' = 0
    /\ pc' = Upd(pc, r, "visit")
    /\ UNCHANGED <<alive, provider, cfg, fnVars, serverVars, seenErrors, scrapeVars,
                   poolVars, collectVars, ret, resp>>
    /\ UNCHANGED parVars

\* The request of c.Visit fails and OnError runs: the global counter is
\* incremented, logged and compared with maxErrors, where log.Fatalf ends
\* the process.
ScrapeError(r) ==
    /\ alive
    /\ pc[r] = "visit"
    /\ errorCount' = errorCount + 1
    /\ seenErrors' = Upd(seenErrors, r, errorCount')
    /\ IF errorCount' >= maxErrors
       THEN alive' = FALSE /\ pc' = Upd(pc, r, "fatal")
       ELSE UNCHANGED alive /\ pc' = Upd(pc, r, "visit_failed")
    /\ UNCHANGED <<provider, cfg, fnVars, serverVars, scrapeVars, poolVars,
                   collectVars, ret, resp>>
    /\ UNCHANGED parVars

\* c.Visit returns the error, getSP500Tickers returns it and getMTDResults
\* ends the process with log.Fatalf.
VisitFails(r) ==
    /\ alive
    /\ pc[r] = "visit_failed"
    /\ alive' = FALSE
    /\ pc' = Upd(pc, r, "fatal")
    /\ UNCHANGED <<provider, cfg, fnVars, serverVars, errorCount, seenErrors, scrapeVars,
                   poolVars, collectVars, ret, resp>>
    /\ UNCHANGED parVars

\* The number of workers getMTDResults starts.
Workers == Min(NumCPU * 2, maxWorkers)

\* c.Visit succeeds and OnHTML has kept the valid rows.  No ticker: the
\* error "no tickers found" ends the process in getMTDResults.  Otherwise the
\* channels are made, the workers and the sender goroutine are started.
VisitOK(r) ==
    /\ alive
    /\ pc[r] = "visit"
    /\ \E page \in cfg.pages :
         LET kept == KeepRows(page) IN
         IF kept = <<>>
         THEN /\ alive' = FALSE
              /\ pc' = Upd(pc, r, "fatal")
              /\ UNCHANGED <<scrapeVars, sendIdx, idle>>
         ELSE /\ tickers' = Upd(tickers, r, [i \in 1..Len(kept) |-> kept[i].ticker])
              /\ sectors' = Upd(sectors, r, [i \in 1..Len(kept) |-> kept[i].sector])
              /\ sendIdx' = Upd(sendIdx, r, 1)
              /\ idle' = Upd(idle, r, Workers)
              /\ pc' = Upd(pc, r, "collect")
              /\ UNCHANGED alive
    /\ UNCHANGED <<provider, cfg, fnVars, serverVars, errorCount, seenErrors, jobs, jobsClosed,
                   busy, resultsCh, calls, collectVars, ret, resp>>
    /\ UNCHANGED parVars

\* The sender goroutine: jobs <- jobResult{ticker, sector}.  The channel holds
\* numTickers jobs, so the send never blocks.
SendJob(r) ==
    /\ alive
    /\ sendIdx[r] \in 1..Len(tickers[r])
    /\ LET i == sendIdx[r]
           sector == IF i <= Len(sectors[r]) THEN sectors[r][i] ELSE "Unknown"
       IN jobs' = Upd(jobs, r, Append(jobs[r], [ticker |-> tickers[r][i], sector |-> sector]))
    /\ sendIdx' = Upd(sendIdx, r, sendIdx[r] + 1)
    /\ UNCHANGED <<alive, provider, cfg, fnVars, serverVars, errorCount, seenErrors, pc, scrapeVars,
                   jobsClosed, idle, busy, resultsCh, calls, collectVars, ret, resp>>
    /\ UNCHANGED parVars

\* The sender goroutine: close(jobs) after the last send.
CloseJobs(r) ==
    /\ alive
    /\ sendIdx[r] = Len(tickers[r]) + 1
    /\ ~jobsClosed[r]
    /\ jobsClosed' = Upd(jobsClosed, r, TRUE)
    /\ UNCHANGED <<alive, provider, cfg, fnVars, serverVars, errorCount, seenErrors, pc, scrapeVars,
                   sendIdx, jobs, idle, busy, resultsCh, calls, collectVars, ret, resp>>
    /\ UNCHANGED parVars

\* A pool that starts a fetch for every queued job, a worker free or not.
WorkerRecvUnbounded(r) ==
    /\ alive
    /\ jobs[r] # <<>>
    /\ jobs' = Upd(jobs, r, Tail(jobs[r]))
    /\ idle' = Upd(idle, r, IF idle[r] > 0 THEN idle[r] - 1 ELSE 0)
    /\ busy' = Upd(busy, r, busy[r] (+) SetToBag({Head(jobs[r])}))
    /\ calls' = Upd(calls, r, calls[r] (+) SetToBag({Head(jobs[r])}))
    /\ UNCHANGED <<alive, provider, cfg, fnVars, serverVars, errorCount, seenErrors, pc, scrapeVars,
                   sendIdx, jobsClosed, resultsCh, collectVars, ret, resp>>
    /\ UNCHANGED parVars

\* A worker: for j := range jobs receives a job and calls getMTDReturn.
WorkerRecv(r) ==
    /\ alive
    /\ idle[r] > 0
    /\ jobs[r] # <<>>
    /\ jobs' = Upd(jobs, r, Tail(jobs[r]))
    /\ idle' = Upd(idle, r, idle[r] - 1)
    /\ busy' = Upd(busy, r, busy[r] (+) SetToBag({Head(jobs[r])}))
    /\ calls' = Upd(calls, r, calls[r] (+) SetToBag({Head(jobs[r])}))
    /\ UNCHANGED <<alive, provider, cfg, fnVars, serverVars, errorCount, seenErrors, pc, scrapeVars,
                   sendIdx, jobsClosed, resultsCh, collectVars, ret, resp>>
    /\ UNCHANGED parVars

\* What a worker sends for job j.
JobResult(j) ==
    LET out == getMTDReturn(provider[j.ticker]) IN
    IF out.err # NoErr
    THEN [ticker |-> j.ticker, sector |-> j.sector, result |-> ZeroMTD, err |-> out.err]
    ELSE [ticker |-> j.ticker, sector |-> j.sector, result |-> out.res, err |-> NoErr]

\* A worker that sends, under its own job's ticker, the return computed for
\* another job in flight.
WorkerFinishCrossTalk(r) ==
    /\ alive
    /\ \E j \in BagToSet(busy[r]), k \in BagToSet(busy[r]) :
         /\ busy' = Upd(busy, r, busy[r] (-) SetToBag({j}))
         /\ resultsCh' = Upd(resultsCh, r, Append(resultsCh[r],
                [JobResult(k) EXCEPT !.ticker = j.ticker, !.sector = j.sector]))
    /\ idle' = Upd(idle, r, idle[r] + 1)
    /\ UNCHANGED <<alive, provider, cfg, fnVars, serverVars, errorCount, seenErrors, pc, scrapeVars,
                   sendIdx, jobs, jobsClosed, calls, collectVars, ret, resp>>
    /\ UNCHANGED parVars

\* A worker: getMTDReturn returns and the worker sends on results, which
\* holds numTickers values and never blocks.
WorkerFinish(r) ==
    /\ alive
    /\ \E j \in BagToSet(busy[r]) :
         /\ busy' = Upd(busy, r, busy[r] (-) SetToBag({j}))
         /\ resultsCh' = Upd(resultsCh, r, Append(resultsCh[r], JobResult(j)))
    /\ idle' = Upd(idle, r, idle[r] + 1)
    /\ UNCHANGED <<alive, provider, cfg, fnVars, serverVars, errorCount, seenErrors, pc, scrapeVars,
                   sendIdx, jobs, jobsClosed, calls, collectVars, ret, resp>>
    /\ UNCHANGED parVars

\* A worker: the jobs channel is closed and drained, the range loop ends.
WorkerExit(r) ==
    /\ alive
    /\ idle[r] > 0
    /\ jobs[r] = <<>>
    /\ jobsClosed[r]
    /\ idle' = Upd(idle, r, idle[r] - 1)
    /\ UNCHANGED <<alive, provider, cfg, fnVars, serverVars, errorCount, seenErrors, pc, scrapeVars,
                   sendIdx, jobs, jobsClosed, busy, resultsCh, calls, collectVars,
                   ret, resp>>
    /\ UNCHANGED parVars

\* --------------------------------------------------------------- collector
\* The Result built from a successful jobResult.
MkResult(res) ==
    [Ticker |-> res.ticker,
     Sector |-> res.sector,
     Return |-> res.result.Return,
     BarCount |-> res.result.BarCount,
     FirstClose |-> DecString(res.result.FirstClose),
     LastClose |-> DecString(res.result.LastClose)]

\* A rollup whose total is overwritten by each return instead of added to.
AddSectorOverwrite(sd, sector, return) ==
    LET old == IF sector \in DOMAIN sd THEN sd[sector]
               ELSE [totalReturn |-> RatZero, count |-> 0]
        new == [totalReturn |-> return, count |-> old.count + 1]
    IN [k \in DOMAIN sd \cup {sector} |-> IF k = sector THEN new ELSE sd[k]]

\* sectorData[sector] after adding one return (a missing key reads as zero).
AddSector(sd, sector, return) ==
    LET old == IF sector \in DOMAIN sd THEN sd[sector]
               ELSE [totalReturn |-> RatZero, count |-> 0]
        new == [totalReturn |-> RatAdd(old.totalReturn, return), count |-> old.count + 1]
    IN [k \in DOMAIN sd \cup {sector} |-> IF k = sector THEN new ELSE sd[k]]

\* A count of the results received that takes each error for two.
CollectedErrorsTwice(r) == Len(validResults[r].elems) + 2 * Len(errs[r])

\* The number of results the collector has received.
Collected(r) == Len(validResults[r].elems) + Len(errs[r])

\* The collect loop without its continue: a failed item is appended too.
CollectNoContinue(r) ==
    /\ alive
    /\ pc[r] = "collect"
    /\ Collected(r) < Len(tickers[r])
    /\ resultsCh[r] # <<>>
    /\ LET res == Head(resultsCh[r]) IN
         /\ errs' = IF res.err # NoErr
                    THEN Upd(errs, r, Append(errs[r], [ticker |-> res.ticker, err |-> res.err]))
                    ELSE errs
         /\ validResults' = Upd(validResults, r, AppendSlice(validResults[r], MkResult(res)))
         /\ sectorData' = Upd(sectorData, r,
                              AddSector(sectorData[r], res.sector, res.result.Return))
    /\ resultsCh' = Upd(resultsCh, r, Tail(resultsCh[r]))
    /\ UNCHANGED <<alive, provider, cfg, fnVars, serverVars, errorCount, seenErrors, pc, scrapeVars,
                   sendIdx, jobs, jobsClosed, idle, busy, calls, sectorReturns,
                   ret, resp>>
    /\ UNCHANGED parVars

\* One round of the collect loop: res := <-results.
Collect(r) ==
    /\ alive
    /\ pc[r] = "collect"
    /\ Collected(r) < Len(tickers[r])
    /\ resultsCh[r] # <<>>
    /\ LET res == Head(resultsCh[r]) IN
         IF res.err # NoErr
         THEN /\ errs' = Upd(errs, r, Append(errs[r], [ticker |-> res.ticker, err |-> res.err]))
              /\ UNCHANGED <<validResults, sectorData>>
         ELSE /\ validResults' = Upd(validResults, r, AppendSlice(validResults[r], MkResult(res)))
              /\ sectorData' = Upd(sectorData, r,
                                   AddSector(sectorData[r], res.sector, res.result.Return))
              /\ UNCHANGED errs
    /\ resultsCh' = Upd(resultsCh, r, Tail(resultsCh[r]))
    /\ UNCHANGED <<alive, provider, cfg, fnVars, serverVars, errorCount, seenErrors, pc, scrapeVars,
                   sendIdx, jobs, jobsClosed, idle, busy, calls, sectorReturns,
                   ret, resp>>
    /\ UNCHANGED parVars

\* A sort that leaves the slice in the order the results arrived in.
ArrivalOrder(s) == {s}

\* The orders sort.Slice may leave s in under less(i, j) = Return[i] > Return[j]:
\* every arrangement with non-increasing returns (the sort is not stable).
RECURSIVE SortedOrders(_)
SortedOrders(s) ==
    IF s = <<>> THEN {<<>>}
    ELSE LET maxes == {i \in 1..Len(s) :
                         \A j \in 1..Len(s) : ~RatGT(s[j].Return, s[i].Return)}
             firsts == {i \in maxes : \A k \in maxes : s[k] = s[i] => i <= k}
         IN UNION {{<<s[i]>> \o t : t \in SortedOrders(RemoveAt(s, i))} : i \in firsts}

\* Sector averages that leave out the sector with the empty name.
SectorReturnsSkipEmpty(sd) ==
    {[Sector |-> k,
      AvgReturn |-> RatDivInt(sd[k].totalReturn, sd[k].count),
      TickerCount |-> sd[k].count] : k \in DOMAIN sd \ {""}}

\* The sector averages: one SectorReturn per key of sectorData.
SectorReturns(sd) ==
    {[Sector |-> k,
      AvgReturn |-> RatDivInt(sd[k].totalReturn, sd[k].count),
      TickerCount |-> sd[k].count] : k \in DOMAIN sd}

\* The orders the sector averages may end in: the map is ranged over in any
\* order and sort.Slice leaves the averages non-increasing.
RECURSIVE SectorOrders(_)
SectorOrders(S) ==
    IF S = {} THEN {<<>>}
    ELSE LET maxes == {x \in S : \A y \in S : ~RatGT(y.AvgReturn, x.AvgReturn)}
         IN UNION {{<<x>> \o t : t \in SectorOrders(S \ {x})} : x \in maxes}

\* A getMTDResults that gives up once the errors collected exceed maxErrors.
FinishWithCeiling(r) ==
    /\ alive
    /\ pc[r] = "collect"
    /\ Collected(r) = Len(tickers[r])
    /\ \E sorted \in SortedOrders(validResults[r].elems) :
         /\ validResults' = Upd(validResults, r, [validResults[r] EXCEPT !.elems = sorted])
         /\ ret' = Upd(ret, r, IF Len(errs[r]) > maxErrors
                                THEN [results |-> NilSlice, err |-> "too many errors"]
                                ELSE [results |-> validResults'[r], err |-> NoErr])
    /\ \E ordered \in SectorOrders(SectorReturns(sectorData[r])) :
         sectorReturns' = Upd(sectorReturns, r,
                              IF ordered = <<>> THEN NilSlice ELSE MkSlice(ordered))
    /\ pc' = Upd(pc, r, "returned")
    /\ UNCHANGED <<alive, provider, cfg, fnVars, serverVars, errorCount, seenErrors, scrapeVars,
                   poolVars, errs, sectorData, resp>>
    /\ UNCHANGED parVars

\* A getMTDResults that sorts and returns once one result is collected.
FinishAtFirstResult(r) ==
    /\ alive
    /\ pc[r] = "collect"
    /\ Collected(r) >= 1
    /\ \E sorted \in SortedOrders(validResults[r].elems) :
         /\ validResults' = Upd(validResults, r, [validResults[r] EXCEPT !.elems = sorted])
         /\ ret' = Upd(ret, r, [results |-> validResults'[r], err |-> NoErr])
    /\ \E ordered \in SectorOrders(SectorReturns(sectorData[r])) :
         sectorReturns' = Upd(sectorReturns, r,
                              IF ordered = <<>> THEN NilSlice ELSE MkSlice(ordered))
    /\ pc' = Upd(pc, r, "returned")
    /\ UNCHANGED <<alive, provider, cfg, fnVars, serverVars, errorCount, seenErrors, scrapeVars,
                   poolVars, errs, sectorData, resp>>
    /\ UNCHANGED parVars

\* After the loop: the errors are logged, the valid results are sorted, the
\* sector averages and the CSV file are written (a failure to write is only
\* logged) and getMTDResults returns validResults, nil.
Finish(r) ==
    /\ alive
    /\ pc[r] = "collect"
    /\ Collected(r) = Len(tickers[r])
    /\ \E sorted \in SortedOrders(validResults[r].elems) :
         /\ validResults' = Upd(validResults, r, [validResults[r] EXCEPT !.elems = sorted])
         /\ ret' = Upd(ret, r, [results |-> validResults'[r], err |-> NoErr])
    /\ \E ordered \in SectorOrders(SectorReturns(sectorData[r])) :
         sectorReturns' = Upd(sectorReturns, r,
                              IF ordered = <<>> THEN NilSlice ELSE MkSlice(ordered))
    /\ pc' = Upd(pc, r, "returned")
    /\ UNCHANGED <<alive, provider, cfg, fnVars, serverVars, errorCount, seenErrors, scrapeVars,
                   poolVars, errs, sectorData, resp>>
    /\ UNCHANGED parVars

\* handleRefresh after getMTDResults: an error is answered with status 500
\* and nothing is installed; otherwise UpdateResults is called (s.mu.Lock()).
AfterReturn(r) ==
    /\ alive
    /\ pc[r] = "returned"
    /\ IF ret[r].err # NoErr
       THEN /\ resp' = Upd(resp, r, [status |-> 500, success |-> FALSE,
                                     body |-> "Failed to refresh data"])
            /\ pc' = Upd(pc, r, "idle")
       ELSE /\ pc' = Upd(pc, r, "lock")
            /\ UNCHANGED resp
    /\ UNCHANGED <<alive, provider, cfg, fnVars, serverVars, errorCount, seenErrors, scrapeVars,
                   poolVars, collectVars, ret>>
    /\ UNCHANGED parVars

\* A Lock that does not wait for another writer.
CanLockIgnoringWriter == muReaders = 0

\* RWMutex.Lock succeeds when no reader and no writer holds the lock.
CanLock == ~muWriter /\ muReaders = 0

\* UpdateResults: s.mu.Lock() returns.
UpdateLock(r) ==
    /\ alive
    /\ pc[r] = "lock"
    /\ CanLock
    /\ muWriter' = TRUE
    /\ pc' = Upd(pc, r, "store_ptr")
    /\ UNCHANGED <<alive, provider, cfg, fnVars, sresults, muReaders, rpc, robs, installed,
                   errorCount, seenErrors, scrapeVars, poolVars, collectVars, ret, resp>>
    /\ UNCHANGED parVars

\* UpdateResults: s.results = results, the store of the slice's pointer.
StorePtr(r) ==
    /\ alive
    /\ pc[r] = "store_ptr"
    /\ sresults' = [sresults EXCEPT !.ptr = ret[r].results]
    /\ pc' = Upd(pc, r, "store_len")
    /\ UNCHANGED <<alive, provider, cfg, fnVars, muWriter, muReaders, rpc, robs, installed,
                   errorCount, seenErrors, scrapeVars, poolVars, collectVars, ret, resp>>
    /\ UNCHANGED parVars

\* UpdateResults: s.results = results, the store of the slice's length.
StoreLen(r) ==
    /\ alive
    /\ pc[r] = "store_len"
    /\ sresults' = [sresults EXCEPT !.len = Len(ret[r].results.elems)]
    /\ pc' = Upd(pc, r, "unlock")
    /\ UNCHANGED <<alive, provider, cfg, fnVars, muWriter, muReaders, rpc, robs, installed,
                   errorCount, seenErrors, scrapeVars, poolVars, collectVars, ret, resp>>
    /\ UNCHANGED parVars

\* UpdateResults: the deferred s.mu.Unlock().
UpdateUnlock(r) ==
    /\ alive
    /\ pc[r] = "unlock"
    /\ muWriter' = FALSE
    /\ installed' = ret[r].results
    /\ pc' = Upd(pc, r, "respond")
    /\ UNCHANGED <<alive, provider, cfg, fnVars, sresults, muReaders, rpc, robs,
                   errorCount, seenErrors, scrapeVars, poolVars, collectVars, ret, resp>>
    /\ UNCHANGED parVars

\* handleRefresh: {"success": true} is written.
Respond(r) ==
    /\ alive
    /\ pc[r] = "respond"
    /\ resp' = Upd(resp, r, [status |-> 200, success |-> TRUE, body |-> ""])
    /\ pc' = Upd(pc, r, "idle")
    /\ UNCHANGED <<alive, provider, cfg, fnVars, serverVars, errorCount, seenErrors, scrapeVars,
                   poolVars, collectVars, ret>>
    /\ UNCHANGED parVars

\* ------------------------------------------- the executor and its caller
\* The zero value of the executor caller's Result (it has no Sector).
ZeroResult == [Ticker |-> "", Return |-> RatZero, BarCount |-> 0,
               FirstClose |-> "", LastClose |-> ""]

\* processFunc of getMTDResults: the Result of one ticker, or its error.
processFunc(ticker) ==
    LET out == getMTDReturn(provider[ticker]) IN
    IF out.err # NoErr
    THEN [value |-> [ZeroResult EXCEPT !.Ticker = ticker], err |-> out.err]
    ELSE IF out.res.Return = NaN
    THEN [value |-> [ZeroResult EXCEPT !.Ticker = ticker], err |-> "invalid return value"]
    ELSE [value |-> [Ticker |-> ticker,
                     Return |-> out.res.Return,
                     BarCount |-> out.res.BarCount,
                     FirstClose |-> DecString(out.res.FirstClose),
                     LastClose |-> DecString(out.res.LastClose)],
          err |-> NoErr]

\* A ProcessInParallel that does not cap the workers at len(items).
ParWorkersUncapped(n, requested) ==
    IF requested <= 0 \/ requested > NumCPU * 2 THEN NumCPU * 2 ELSE requested

\* ProcessInParallel: the number of workers started for n items.
ParWorkers(n, requested) ==
    LET m == IF requested <= 0 \/ requested > NumCPU * 2 THEN NumCPU * 2 ELSE requested
    IN IF m > n THEN n ELSE m

\* ctx.Err() of a context whose deadline has passed.
DeadlineExceeded == "context deadline exceeded"

\* c.Visit succeeds (no ticker ends the process as above).  getMTDResults
\* makes the context with its deadline and calls ProcessInParallel, which
\* makes the channels and starts the workers.
ParVisitOK(r) ==
    /\ alive
    /\ pc[r] = "visit"
    /\ \E page \in cfg.pages :
         LET kept == KeepRows(page) IN
         IF kept = <<>>
         THEN /\ alive' = FALSE
              /\ pc' = Upd(pc, r, "fatal")
              /\ UNCHANGED <<tickers, sendIdx, idle, ctx, wg>>
         ELSE /\ tickers' = Upd(tickers, r, [i \in 1..Len(kept) |-> kept[i].ticker])
              /\ ctx' = Upd(ctx, r, "live")
              /\ sendIdx' = Upd(sendIdx, r, 1)
              /\ idle' = Upd(idle, r, ParWorkers(Len(kept), Workers))
              /\ wg' = Upd(wg, r, ParWorkers(Len(kept), Workers))
              /\ pc' = Upd(pc, r, "dispatch")
              /\ UNCHANGED alive
    /\ UNCHANGED <<provider, cfg, fnVars, serverVars, errorCount, seenErrors, sectors, jobs, jobsClosed,
                   busy, resultsCh, calls, collectVars, ret, resp, resultsClosed,
                   resultSlice, doneLive>>

\* The deadline of the context passes while ProcessInParallel runs.
CtxDeadline(r) ==
    /\ alive
    /\ ctx[r] = "live"
    /\ ctx' = Upd(ctx, r, "deadline")
    /\ UNCHANGED <<alive, provider, cfg, fnVars, serverVars, errorCount, seenErrors, pc, scrapeVars,
                   poolVars, collectVars, ret, resp, wg, resultsClosed, resultSlice,
                   doneLive>>

\* The dispatch loop: select takes case jobs <- item (the channel holds
\* len(items) jobs, so the send is always ready).
ParSend(r) ==
    /\ alive
    /\ pc[r] = "dispatch"
    /\ sendIdx[r] \in 1..Len(tickers[r])
    /\ jobs' = Upd(jobs, r, Append(jobs[r], tickers[r][sendIdx[r]]))
    /\ sendIdx' = Upd(sendIdx, r, sendIdx[r] + 1)
    /\ UNCHANGED <<alive, provider, cfg, fnVars, serverVars, errorCount, seenErrors, pc, scrapeVars,
                   jobsClosed, idle, busy, resultsCh, calls, collectVars, ret, resp,
                   parVars>>

\* The dispatch loop: select takes case <-ctx.Done(): close(jobs) and
\* return nil, []error{ctx.Err()}.
ParSendCancelled(r) ==
    /\ alive
    /\ pc[r] = "dispatch"
    /\ sendIdx[r] \in 1..Len(tickers[r])
    /\ ctx[r] = "deadline"
    /\ jobsClosed' = Upd(jobsClosed, r, TRUE)
    /\ resultSlice' = Upd(resultSlice, r, NilSlice)
    /\ errs' = Upd(errs, r, <<DeadlineExceeded>>)
    /\ pc' = Upd(pc, r, "par_done")
    /\ UNCHANGED <<alive, provider, cfg, fnVars, serverVars, errorCount, seenErrors, scrapeVars, sendIdx,
                   jobs, idle, busy, resultsCh, calls, validResults, sectorData,
                   sectorReturns, ret,
                   resp, ctx, wg, resultsClosed, doneLive>>

\* After the dispatch loop: close(jobs), the goroutine that waits for the
\* workers is started, resultSlice and errors are made.
ParCloseJobs(r) ==
    /\ alive
    /\ pc[r] = "dispatch"
    /\ sendIdx[r] = Len(tickers[r]) + 1
    /\ jobsClosed' = Upd(jobsClosed, r, TRUE)
    /\ resultsClosed' = Upd(resultsClosed, r, "waiting")
    /\ resultSlice' = Upd(resultSlice, r, MkSlice([i \in 1..Len(tickers[r]) |-> ZeroResult]))
    /\ errs' = Upd(errs, r, <<>>)
    /\ pc' = Upd(pc, r, "gather")
    /\ UNCHANGED <<alive, provider, cfg, fnVars, serverVars, errorCount, seenErrors, scrapeVars, sendIdx,
                   jobs, idle, busy, resultsCh, calls, validResults, sectorData,
                   sectorReturns, ret,
                   resp, ctx, wg, doneLive>>

\* A worker that calls processFunc on the item at the head of the jobs
\* channel and leaves the item there.
ParWorkerRecvPeek(r) ==
    /\ alive
    /\ idle[r] > 0
    /\ jobs[r] # <<>>
    /\ idle' = Upd(idle, r, idle[r] - 1)
    /\ IF ctx[r] # "live"
       THEN /\ wg' = Upd(wg, r, wg[r] - 1)
            /\ UNCHANGED <<busy, calls>>
       ELSE /\ busy' = Upd(busy, r, busy[r] (+) SetToBag({Head(jobs[r])}))
            /\ calls' = Upd(calls, r, calls[r] (+) SetToBag({Head(jobs[r])}))
            /\ UNCHANGED wg
    /\ UNCHANGED <<alive, provider, cfg, fnVars, serverVars, errorCount, seenErrors, pc, scrapeVars,
                   sendIdx, jobs, jobsClosed, resultsCh, collectVars, ret, resp, ctx,
                   resultsClosed, resultSlice, doneLive>>

\* A worker that calls processFunc on every item it receives, the context
\* done or not.
ParWorkerRecvAlways(r) ==
    /\ alive
    /\ idle[r] > 0
    /\ jobs[r] # <<>>
    /\ jobs' = Upd(jobs, r, Tail(jobs[r]))
    /\ idle' = Upd(idle, r, idle[r] - 1)
    /\ busy' = Upd(busy, r, busy[r] (+) SetToBag({Head(jobs[r])}))
    /\ calls' = Upd(calls, r, calls[r] (+) SetToBag({Head(jobs[r])}))
    /\ UNCHANGED <<alive, provider, cfg, fnVars, serverVars, errorCount, seenErrors, pc, scrapeVars,
                   sendIdx, jobsClosed, resultsCh, collectVars, ret, resp, ctx, wg,
                   resultsClosed, resultSlice, doneLive>>

\* A worker: for item := range jobs receives an item; with the context
\* done it returns (wg.Done), otherwise it calls processFunc.
ParWorkerRecv(r) ==
    /\ alive
    /\ idle[r] > 0
    /\ jobs[r] # <<>>
    /\ jobs' = Upd(jobs, r, Tail(jobs[r]))
    /\ idle' = Upd(idle, r, idle[r] - 1)
    /\ IF ctx[r] # "live"
       THEN /\ wg' = Upd(wg, r, wg[r] - 1)
            /\ UNCHANGED <<busy, calls>>
       ELSE /\ busy' = Upd(busy, r, busy[r] (+) SetToBag({Head(jobs[r])}))
            /\ calls' = Upd(calls, r, calls[r] (+) SetToBag({Head(jobs[r])}))
            /\ UNCHANGED wg
    /\ UNCHANGED <<alive, provider, cfg, fnVars, serverVars, errorCount, seenErrors, pc, scrapeVars,
                   sendIdx, jobsClosed, resultsCh, collectVars, ret, resp, ctx,
                   resultsClosed, resultSlice, doneLive>>

\* A worker: processFunc returns and the worker sends {item, value, err} on
\* results (index is left zero); the channel holds len(items) values.
ParWorkerFinish(r) ==
    /\ alive
    /\ \E item \in BagToSet(busy[r]) :
         /\ busy' = Upd(busy, r, busy[r] (-) SetToBag({item}))
         /\ resultsCh' = Upd(resultsCh, r, Append(resultsCh[r],
                [index |-> 0, item |-> item,
                 value |-> processFunc(item).value, err |-> processFunc(item).err]))
         /\ doneLive' = Upd(doneLive, r,
                IF ctx[r] = "live" THEN doneLive[r] \cup {item} ELSE doneLive[r])
    /\ idle' = Upd(idle, r, idle[r] + 1)
    /\ UNCHANGED <<alive, provider, cfg, fnVars, serverVars, errorCount, seenErrors, pc, scrapeVars,
                   sendIdx, jobs, jobsClosed, calls, collectVars, ret, resp, ctx, wg,
                   resultsClosed, resultSlice>>

\* A worker that returns without wg.Done().
ParWorkerExitNoDone(r) ==
    /\ alive
    /\ idle[r] > 0
    /\ jobs[r] = <<>>
    /\ jobsClosed[r]
    /\ idle' = Upd(idle, r, idle[r] - 1)
    /\ UNCHANGED <<alive, provider, cfg, fnVars, serverVars, errorCount, seenErrors, pc, scrapeVars,
                   sendIdx, jobs, jobsClosed, busy, resultsCh, calls, collectVars,
                   ret, resp, ctx, wg, resultsClosed, resultSlice, doneLive>>

\* A worker: the jobs channel is closed and drained, the worker returns.
ParWorkerExit(r) ==
    /\ alive
    /\ idle[r] > 0
    /\ jobs[r] = <<>>
    /\ jobsClosed[r]
    /\ idle' = Upd(idle, r, idle[r] - 1)
    /\ wg' = Upd(wg, r, wg[r] - 1)
    /\ UNCHANGED <<alive, provider, cfg, fnVars, serverVars, errorCount, seenErrors, pc, scrapeVars,
                   sendIdx, jobs, jobsClosed, busy, resultsCh, calls, collectVars,
                   ret, resp, ctx, resultsClosed, resultSlice, doneLive>>

\* The closing goroutine: wg.Wait() returns and close(results) runs.
ParCloseResults(r) ==
    /\ alive
    /\ resultsClosed[r] = "waiting"
    /\ wg[r] = 0
    /\ resultsClosed' = Upd(resultsClosed, r, "closed")
    /\ UNCHANGED <<alive, provider, cfg, fnVars, serverVars, errorCount, seenErrors, pc, scrapeVars,
                   poolVars, collectVars, ret, resp, ctx, wg, resultSlice, doneLive>>

\* The first position of item in items, 0 when it is not there.
IndexOf(items, item) ==
    IF \E i \in 1..Len(items) : items[i] = item
    THEN CHOOSE i \in 1..Len(items) :
             items[i] = item /\ \A k \in 1..(i - 1) : items[k] # item
    ELSE 0

\* resultSlice after the collect loop has placed one successful result.
PlaceResult(slice, items, result) ==
    LET i == IndexOf(items, result.item) IN
    IF i = 0 THEN slice ELSE [slice EXCEPT !.elems[i] = result.value]

\* One round of the collect loop: for result := range results.
ParGather(r) ==
    /\ alive
    /\ pc[r] = "gather"
    /\ resultsCh[r] # <<>>
    /\ LET result == Head(resultsCh[r]) IN
         IF result.err # NoErr
         THEN /\ errs' = Upd(errs, r, Append(errs[r], result.err))
              /\ UNCHANGED resultSlice
         ELSE /\ resultSlice' = Upd(resultSlice, r,
                                    PlaceResult(resultSlice[r], tickers[r], result))
              /\ UNCHANGED errs
    /\ resultsCh' = Upd(resultsCh, r, Tail(resultsCh[r]))
    /\ UNCHANGED <<alive, provider, cfg, fnVars, serverVars, errorCount, seenErrors, pc, scrapeVars,
                   sendIdx, jobs, jobsClosed, idle, busy, calls, validResults,
                   sectorData, sectorReturns, ret, resp, ctx, wg, resultsClosed, doneLive>>

\* The collect loop ends on the closed, drained results channel and
\* ProcessInParallel returns resultSlice, errors.
ParReturn(r) ==
    /\ alive
    /\ pc[r] = "gather"
    /\ resultsCh[r] = <<>>
    /\ resultsClosed[r] = "closed"
    /\ pc' = Upd(pc, r, "par_done")
    /\ UNCHANGED <<alive, provider, cfg, fnVars, serverVars, errorCount, seenErrors, scrapeVars,
                   poolVars, collectVars, ret, resp, parVars>>

\* The results with a ticker, in order.
ValidOf(slice) ==
    LET kept == SelectSeq(slice.elems, LAMBDA res : res.Ticker # "")
    IN IF kept = <<>> THEN NilSlice ELSE MkSlice(kept)

\* getMTDResults after ProcessInParallel: the results with a ticker are kept
\* and sorted, the errors only logged, the CSV file is written (os.Create
\* failing ends the process) and validResults, nil is returned; the deferred
\* cancel() ends the context.
ParFilter(r) ==
    /\ alive
    /\ pc[r] = "par_done"
    /\ \E created \in BOOLEAN :
         IF created
         THEN /\ \E sorted \in SortedOrders(ValidOf(resultSlice[r]).elems) :
                   /\ validResults' = Upd(validResults, r,
                          [ValidOf(resultSlice[r]) EXCEPT !.elems = sorted])
                   /\ ret' = Upd(ret, r, [results |-> validResults'[r], err |-> NoErr])
              /\ ctx' = Upd(ctx, r, IF ctx[r] = "live" THEN "canceled" ELSE ctx[r])
              /\ pc' = Upd(pc, r, "returned")
              /\ UNCHANGED alive
         ELSE /\ alive' = FALSE
              /\ pc' = Upd(pc, r, "fatal_csv")
              /\ UNCHANGED <<validResults, ret, ctx>>
    /\ UNCHANGED <<provider, cfg, fnVars, serverVars, errorCount, seenErrors, scrapeVars, poolVars,
                   errs, sectorData, sectorReturns, resp, wg, resultsClosed, resultSlice, doneLive>>

\* ---------------------------------------------------------- specification
Next ==
    \/ \E c \in Readers : ReadLock(c) \/ ReadUnlock(c)
    \/ \E r \in Refreshers :
         \/ HandleRefresh(r)
         \/ ScrapeReset(r)
         \/ ScrapeError(r)
         \/ VisitFails(r)
         \/ VisitOK(r)
         \/ SendJob(r)
         \/ CloseJobs(r)
         \/ WorkerRecv(r)
         \/ WorkerFinish(r)
         \/ WorkerExit(r)
         \/ Collect(r)
         \/ Finish(r)
         \/ AfterReturn(r)
         \/ UpdateLock(r)
         \/ StorePtr(r)
         \/ StoreLen(r)
         \/ UpdateUnlock(r)
         \/ Respond(r)

Spec == Init /\ [][Next]_vars

\* One refresh over the long page, next to one reader.
InitLong ==
    /\ InitCommon
    /\ FnIdle
    /\ cfg = [refreshers |-> {"r1"}, readers |-> {"handleAPI"}, pages |-> {LongPage}]

SpecLong == InitLong /\ [][Next]_vars

\* The server with the getMTDResults that calls ProcessInParallel.
\* -------------------------------------------- the calculator on its own
\* Everything but the calculator's and the window's variables.
pipeVars == <<alive, provider, cfg, serverVars, errorCount, seenErrors, pc, scrapeVars,
              poolVars, collectVars, ret, resp, parVars>>
NoRequests == [refreshers |-> {}, readers |-> {}, pages |-> {}]

\* getMTDReturn is called on a provider's answer.
CalcRun ==
    /\ mtd = NoMTD
    /\ answer \in Answers
    /\ mtd' = getMTDReturn(answer)
    /\ UNCHANGED <<pipeVars, answer, windowVars, startVars>>

InitCalc ==
    /\ InitCommon
    /\ cfg = NoRequests
    /\ answer \in Answers
    /\ mtd = NoMTD
    /\ WindowIdle
    /\ StartIdle

NextCalc == CalcRun

SpecCalc == InitCalc /\ [][NextCalc]_vars

\* ------------------------------------------------ the window on its own
\* A query value is the sequence of its characters; <<>> is a parameter that
\* is absent (query.Get returns "").
DigitChars == <<"0", "1", "2", "3", "4", "5", "6", "7", "8", "9">>
IsDigit(c) == \E i \in 1..Len(DigitChars) : DigitChars[i] = c
DigitVal(c) == (CHOOSE i \in 1..Len(DigitChars) : DigitChars[i] = c) - 1
RECURSIVE DigitsVal(_)
DigitsVal(s) ==
    IF s = <<>> THEN 0
    ELSE DigitsVal(SubSeq(s, 1, Len(s) - 1)) * 10 + DigitVal(s[Len(s)])
\* strconv.Atoi: an optional sign and at least one digit, nothing else.
Atoi(s) ==
    LET signed == s # <<>> /\ s[1] \in {"+", "-"}
        body == IF signed THEN Tail(s) ELSE s
    IN IF body = <<>> \/ \E i \in 1..Len(body) : ~IsDigit(body[i])
       THEN [ok |-> FALSE, val |-> 0]
       ELSE [ok |-> TRUE,
             val |-> IF signed /\ s[1] = "-" THEN 0 - DigitsVal(body) ELSE DigitsVal(body)]

\* The year, month and day handleRefresh passes on for a raw query value.
ParseYear(raw) ==
    IF raw # <<>> /\ Atoi(raw).ok /\ Atoi(raw).val > 0 THEN Atoi(raw).val ELSE 0
ParseMonth(raw) ==
    IF raw # <<>> /\ Atoi(raw).ok /\ Atoi(raw).val >= 1 /\ Atoi(raw).val <= 12
    THEN Atoi(raw).val ELSE 0
ParseDay(raw) ==
    IF raw # <<>> /\ Atoi(raw).ok /\ Atoi(raw).val >= 1 /\ Atoi(raw).val <= 31
    THEN Atoi(raw).val ELSE 0

\* The calendar, and time.Date with its normalisation: a month outside 1..12
\* moves the year, a day outside the month moves the month.
IsLeap(y) == (y % 4 = 0 /\ y % 100 # 0) \/ y % 400 = 0
DaysIn(y, m) ==
    IF m = 2 THEN (IF IsLeap(y) THEN 29 ELSE 28)
    ELSE IF m \in {4, 6, 9, 11} THEN 30 ELSE 31
RECURSIVE NormDay(_, _, _)
NormDay(y, m, d) ==
    IF d < 1
    THEN LET py == IF m = 1 THEN y - 1 ELSE y
             pm == IF m = 1 THEN 12 ELSE m - 1
         IN NormDay(py, pm, d + DaysIn(py, pm))
    ELSE IF d > DaysIn(y, m)
    THEN NormDay(IF m = 12 THEN y + 1 ELSE y, IF m = 12 THEN 1 ELSE m + 1,
                 d - DaysIn(y, m))
    ELSE [y |-> y, m |-> m, d |-> d]
Date(y, m, d) == NormDay(y + ((m - 1) \div 12), ((m - 1) % 12) + 1, d)
\* t.AddDate(years, months, days)
AddDate(t, years, months, days) == Date(t.y + years, t.m + months, t.d + days)

\* The raw query values a request may carry, and the dates it may arrive on.
QueryYears ==
    {<<>>, <<"x">>, <<"0">>, <<"-", "1">>, <<"2", "0", "2", "3">>, <<"2", "0", "2", "4">>}
QueryMonths ==
    {<<>>, <<"x">>, <<"0">>, <<"1">>, <<"2">>, <<"3">>, <<"1", "2">>, <<"1", "3">>}
QueryDays ==
    {<<>>, <<"x">>, <<"0">>, <<"1">>, <<"2", "9">>, <<"3", "1">>, <<"3", "2">>}
Queries == [year : QueryYears, month : QueryMonths, day : QueryDays]
Nows ==
    {t \in [y : {2023, 2024}, m : {1, 3, 5, 12}, d : {1, 29, 30, 31}] :
        t.d <= DaysIn(t.y, t.m)}

\* handleRefresh: the query parameters are parsed; a value that is absent,
\* not a number or out of range leaves the zero.
ParseQuery ==
    /\ wpc = "request"
    /\ args' = [year |-> ParseYear(query.year),
                month |-> ParseMonth(query.month),
                day |-> ParseDay(query.day),
                lastMonth |-> NoDate]
    /\ wpc' = "parsed"
    /\ UNCHANGED <<pipeVars, calcVars, startVars, query, now, window>>

\* A getMTDResults that takes the previous month whatever it is given.
DefaultDateAlways ==
    /\ wpc = "parsed"
    /\ LET lastMonth == AddDate(now, 0, -1, 0)
       IN args' = [year |-> lastMonth.y, month |-> lastMonth.m,
                   day |-> lastMonth.d, lastMonth |-> lastMonth]
    /\ wpc' = "dated"
    /\ UNCHANGED <<pipeVars, calcVars, startVars, query, now, window>>

\* getMTDResults: with no year or no month, year, month and day are all
\* taken from time.Now().AddDate(0, -1, 0).
DefaultDate ==
    /\ wpc = "parsed"
    /\ IF args.year = 0 \/ args.month = 0
       THEN LET lastMonth == AddDate(now, 0, -1, 0)
            IN args' = [year |-> lastMonth.y, month |-> lastMonth.m,
                        day |-> lastMonth.d, lastMonth |-> lastMonth]
       ELSE UNCHANGED args
    /\ wpc' = "dated"
    /\ UNCHANGED <<pipeVars, calcVars, startVars, query, now, window>>

\* getMonthRange: start is the date of year, month and day; end is one month
\* later less a day.
getMonthRange ==
    /\ wpc = "dated"
    /\ LET start == Date(args.year, args.month, args.day)
       IN window' = [start |-> start, end |-> AddDate(start, 0, 1, -1)]
    /\ wpc' = "ranged"
    /\ UNCHANGED <<pipeVars, calcVars, startVars, query, now, args>>

InitWindow ==
    /\ InitCommon
    /\ cfg = NoRequests
    /\ CalcIdle
    /\ StartIdle
    /\ query \in Queries
    /\ now \in Nows
    /\ args = NoArgs
    /\ window = NoWindow
    /\ wpc = "request"

NextWindow == ParseQuery \/ DefaultDate \/ getMonthRange

SpecWindow == InitWindow /\ [][NextWindow]_vars

\* ----------------------------------------- the worker count on its own
\* The calls of ProcessInParallel: a non-empty item list and any maxWorkers.
ParCalls == [items : 1..MaxItems, maxWorkers : (0 - MaxRequested)..MaxRequested]

\* ProcessInParallel computes maxWorkers and starts that many workers.
StartWorkers ==
    /\ ~parStarted.started
    /\ parArgs \in ParCalls
    /\ parStarted' = [started |-> TRUE,
                      workers |-> ParWorkers(parArgs.items, parArgs.maxWorkers)]
    /\ UNCHANGED <<pipeVars, calcVars, windowVars, parArgs>>

InitStart ==
    /\ InitCommon
    /\ cfg = NoRequests
    /\ CalcIdle
    /\ WindowIdle
    /\ parArgs \in ParCalls
    /\ parStarted = NoneStarted

NextStart == StartWorkers

SpecStart == InitStart /\ [][NextStart]_vars

\* Two refresh requests in flight at once, each over a page of one row.
SinglePages == [1..1 -> RawRows]
InitTwo ==
    /\ InitCommon
    /\ FnIdle
    /\ cfg = [refreshers |-> Refreshers, readers |-> {"handleAPI"}, pages |-> SinglePages]

SpecTwo == InitTwo /\ [][Next]_vars

\* The pipeline over pages whose symbols share a sector.
InitSectors ==
    /\ InitCommon
    /\ FnIdle
    /\ cfg = [refreshers |-> {"r1"}, readers |-> {"handleAPI"}, pages |-> SectorPages]

SpecSectors == InitSectors /\ [][Next]_vars

NextPar ==
    \/ \E c \in Readers : ReadLock(c) \/ ReadUnlock(c)
    \/ \E r \in Refreshers :
         \/ HandleRefresh(r)
         \/ ScrapeReset(r)
         \/ ScrapeError(r)
         \/ VisitFails(r)
         \/ ParVisitOK(r)
         \/ CtxDeadline(r)
         \/ ParSend(r)
         \/ ParSendCancelled(r)
         \/ ParCloseJobs(r)
         \/ ParWorkerRecv(r)
         \/ ParWorkerFinish(r)
         \/ ParWorkerExit(r)
         \/ ParCloseResults(r)
         \/ ParGather(r)
         \/ ParReturn(r)
         \/ ParFilter(r)
         \/ AfterReturn(r)
         \/ UpdateLock(r)
         \/ StorePtr(r)
         \/ StoreLen(r)
         \/ UpdateUnlock(r)
         \/ Respond(r)

InitPar ==
    /\ InitCommon
    /\ FnIdle
    /\ cfg = [refreshers |-> {"r1"}, readers |-> {"handleAPI"}, pages |-> ShortPages]

SpecPar == InitPar /\ [][NextPar]_vars

\* The goroutines of a call of ProcessInParallel, each scheduled again and
\* again while it can run: the caller, the workers and the goroutine that
\* closes results.  No request has to arrive and no deadline has to pass.
ParCaller(r) ==
    \/ ParSend(r)
    \/ ParSendCancelled(r)
    \/ ParCloseJobs(r)
    \/ ParGather(r)
    \/ ParReturn(r)
    \/ ParFilter(r)
ParWorker(r) == ParWorkerRecv(r) \/ ParWorkerFinish(r) \/ ParWorkerExit(r)
ParFair ==
    \A r \in Refreshers :
        /\ WF_vars(ParCaller(r))
        /\ WF_vars(ParWorker(r))
        /\ WF_vars(ParCloseResults(r))

\* One call of getMTDResults over ProcessInParallel, from the request to the
\* return; nobody reads meanwhile.
PoolPages == [1..MaxTickers -> RawRows]
InitParPool ==
    /\ InitCommon
    /\ FnIdle
    /\ cfg = [refreshers |-> {"r1"}, readers |-> {}, pages |-> PoolPages]
NextParPool ==
    \E r \in Refreshers :
        \/ HandleRefresh(r)
        \/ ScrapeReset(r)
        \/ ParVisitOK(r)
        \/ CtxDeadline(r)
        \/ ParSend(r)
        \/ ParSendCancelled(r)
        \/ ParCloseJobs(r)
        \/ ParWorkerRecv(r)
        \/ ParWorkerFinish(r)
        \/ ParWorkerExit(r)
        \/ ParCloseResults(r)
        \/ ParGather(r)
        \/ ParReturn(r)
        \/ ParFilter(r)
LiveSpecPar == InitParPool /\ [][NextParPool]_vars /\ ParFair

\* The goroutines of getMTDResults, scheduled in the same way: the caller,
\* the sender and the workers.
PoolCaller(r) == Collect(r) \/ Finish(r)
PoolSender(r) == SendJob(r) \/ CloseJobs(r)
PoolWorker(r) == WorkerRecv(r) \/ WorkerFinish(r) \/ WorkerExit(r)
PoolFair ==
    \A r \in Refreshers :
        /\ WF_vars(PoolCaller(r))
        /\ WF_vars(PoolSender(r))
        /\ WF_vars(PoolWorker(r))
LiveSpec == Spec /\ PoolFair

\* ------------------------------------------------------------------ claims
\* The positions of a refresh after getMTDResults has returned.
Returned == {"returned", "lock", "store_ptr", "store_len", "unlock", "respond"}
\* getMTDReturn succeeds for the ticker.
OkTicker(t) == getMTDReturn(provider[t]).err = NoErr
\* The tickers of a sequence of records with a ticker field.
TickersOf(s) == [i \in 1..Len(s) |-> s[i].ticker]

\* C1: a reader holding the read lock has read the whole snapshot that was
\* installed last, never a torn or a partially built one, also while a
\* refresh is in flight.
ReadsCompleteSnapshot ==
    \A c \in Readers :
        rpc[c] = "reading" => ~robs[c].torn /\ robs[c].val = installed

\* C1 witness: a reader reads the installed snapshot while a refresh has
\* collected part of a new one.
ReadDuringRefresh ==
    \E c \in Readers, r \in Refreshers :
        /\ rpc[c] = "reading"
        /\ pc[r] = "collect"
        /\ Collected(r) < Len(tickers[r])
        /\ validResults[r].elems # <<>>
        /\ ~installed.nil
        /\ validResults[r] # installed
        /\ robs[c].val = installed

\* C2 (as claimed): after a refresh has failed the process still answers
\* reads, and reads give the snapshot installed last.
FailedRefreshKeepsServing ==
    \A r \in Refreshers :
        pc[r] = "fatal" => alive /\ View(sresults) = [torn |-> FALSE, val |-> installed]

\* C5: when getMTDResults returns, the set of records it returns is the set
\* the ticker list and the provider's data determine, whatever the schedule.
ExpectedResults(r) ==
    {MkResult(JobResult([ticker |-> tickers[r][i], sector |-> sectors[r][i]])) :
        i \in {k \in 1..Len(tickers[r]) : OkTicker(tickers[r][k])}}
ExpectedParResults(r) ==
    {processFunc(t).value : t \in {u \in Range(tickers[r]) : OkTicker(u)}}
PairsIndependentOfSchedule ==
    \A r \in Refreshers :
        pc[r] \in Returned =>
            CASE ctx[r] = "none" -> Range(ret[r].results.elems) = ExpectedResults(r)
              [] ctx[r] = "canceled" -> Range(ret[r].results.elems) = ExpectedParResults(r)
              [] OTHER -> TRUE

\* C5 witness: a refresh has returned two records of different tickers.
TwoRecordsReturned ==
    \E r \in Refreshers :
        /\ pc[r] = "returned"
        /\ Len(ret[r].results.elems) = 2
        /\ ret[r].results.elems[1].Ticker # ret[r].results.elems[2].Ticker

\* C8: when getMTDResults returns it returns no error, the records returned
\* are those of the tickers whose work succeeded, the errors collected are
\* those of the tickers whose work failed, and the endpoint answers success.
PerItemFailureNotFatal ==
    \A r \in Refreshers :
        /\ pc[r] \in Returned =>
              /\ ret[r].err = NoErr
              /\ SeqToBag([i \in 1..Len(ret[r].results.elems) |->
                              ret[r].results.elems[i].Ticker])
                   = SeqToBag(SelectSeq(tickers[r], OkTicker))
              /\ SeqToBag(TickersOf(errs[r]))
                   = SeqToBag(SelectSeq(tickers[r], LAMBDA t : ~OkTicker(t)))
        /\ resp[r] # NoResp => resp[r].success /\ resp[r].status = 200

\* C8 witness: a refresh with a failed item and a valid one has answered.
FailureAndSuccessAnswered ==
    \E r \in Refreshers :
        /\ resp[r].success
        /\ errs[r] # <<>>
        /\ ret[r].results.elems # <<>>

\* C9 (as claimed): when the ticker source fails or yields no ticker, nothing
\* has been dispatched and the endpoint has answered success:false with a
\* message.
AbortReportsFailure ==
    \A r \in Refreshers :
        pc[r] = "fatal" =>
            /\ calls[r] = EmptyBag /\ jobs[r] = <<>>
            /\ resp[r].status = 500 /\ ~resp[r].success /\ resp[r].body # ""

\* C10 (as claimed): getMTDResults returns an error exactly when the errors
\* collected exceed maxErrors.
FailsIffOverCeiling ==
    \A r \in Refreshers :
        pc[r] = "returned" => (ret[r].err # NoErr <=> Len(errs[r]) > maxErrors)

\* C10 (amended): per-item errors are collected next to the valid records,
\* they never reach the scrape error counter and getMTDResults returns no
\* error whatever their number.
PerItemErrorsNeverFail ==
    \A r \in Refreshers :
        pc[r] = "returned" =>
            /\ ret[r].err = NoErr
            /\ errorCount = 0
            /\ Len(errs[r]) + Len(ret[r].results.elems) = Len(tickers[r])

\* C10 witness: getMTDResults returns with more errors than maxErrors.
ReturnedOverCeiling ==
    \E r \in Refreshers : pc[r] = "returned" /\ Len(errs[r]) > maxErrors


ResultsByPosition ==
    \A r \in Refreshers :
        pc[r] = "par_done" /\ ctx[r] = "live" =>
            \A i \in 1..Len(tickers[r]) :
                OkTicker(tickers[r][i]) =>
                    resultSlice[r].elems[i] = processFunc(tickers[r][i]).value

\* C6 (as claimed): when ProcessInParallel returns after the deadline has
\* passed, the errors hold the context's error and the results hold the value
\* of every item whose work succeeded before the deadline.
CancelledReturnsPartial ==
    \A r \in Refreshers :
        pc[r] = "par_done" /\ ctx[r] = "deadline" =>
            /\ DeadlineExceeded \in Range(errs[r])
            /\ \A item \in doneLive[r] :
                   OkTicker(item) =>
                       \E i \in 1..Len(resultSlice[r].elems) :
                           resultSlice[r].elems[i] = processFunc(item).value

\* C7 (as claimed): a refresh whose deadline passed and that has no valid
\* record returns an error, so that nothing is installed.
CancelledEmptyNotInstalled ==
    \A r \in Refreshers :
        pc[r] \in Returned /\ ctx[r] = "deadline" /\ ret[r].results.elems = <<>> =>
            ret[r].err # NoErr

\* No element of s has a greater Return than the element before it.
NonIncreasing(s) == \A i \in 1..(Len(s) - 1) : ~RatGT(s[i + 1].Return, s[i].Return)

\* C11: in every result set a refresh produces, and in every snapshot
\* installed, the items are sorted by return in non-increasing order: no item
\* has a greater return than the item before it.
ItemsSortedByReturn ==
    /\ NonIncreasing(installed.elems)
    /\ \A r \in Refreshers :
         pc[r] \in Returned => NonIncreasing(ret[r].results.elems)

\* C11 witness: a refresh whose ticker list had the smaller return first has
\* returned both records, the greater return first.
SortedAgainstInputOrder ==
    \E r \in Refreshers :
        /\ pc[r] = "returned"
        /\ Len(tickers[r]) = 2
        /\ Len(ret[r].results.elems) = 2
        /\ ret[r].results.elems[1].Ticker = tickers[r][2]
        /\ RatGT(ret[r].results.elems[1].Return, ret[r].results.elems[2].Return)

\* The items of s whose Sector is g, and the sum of the returns of a sequence.
MembersOf(s, g) == SelectSeq(s, LAMBDA x : x.Sector = g)
RECURSIVE SumReturns(_)
SumReturns(s) ==
    IF s = <<>> THEN RatZero ELSE RatAdd(Head(s).Return, SumReturns(Tail(s)))

\* C12: in the result set a refresh has produced, each category's average
\* return is the arithmetic mean of the returns of the items whose sector is
\* the category's, and its ticker count is the number of those items.
CategoryIsMeanOfMembers ==
    \A r \in Refreshers :
        pc[r] \in Returned =>
            \A i \in 1..Len(sectorReturns[r].elems) :
                LET c == sectorReturns[r].elems[i]
                    members == MembersOf(ret[r].results.elems, c.Sector)
                IN /\ c.TickerCount = Len(members)
                   /\ members # <<>>
                   /\ c.AvgReturn = RatDivInt(SumReturns(members), Len(members))

\* C12 witness: a refresh has returned with a category of two member items
\* of different returns, whose average is not zero.
CategoryOfTwoReturned ==
    \E r \in Refreshers :
        /\ pc[r] = "returned"
        /\ \E i \in 1..Len(sectorReturns[r].elems) :
             LET c == sectorReturns[r].elems[i]
                 members == MembersOf(ret[r].results.elems, c.Sector)
             IN /\ c.TickerCount = 2
                /\ Len(members) = 2
                /\ members[1].Return # members[2].Return
                /\ c.AvgReturn # RatZero

\* The sum of the ticker counts of a sequence of sector averages.
RECURSIVE SumCounts(_)
SumCounts(s) == IF s = <<>> THEN 0 ELSE Head(s).TickerCount + SumCounts(Tail(s))

\* C13: in the result set a refresh has produced, every sector that occurs
\* in the items has exactly one category, every category has at least one
\* member item, and the ticker counts add up to the number of items.
CategoriesPartitionGroups ==
    \A r \in Refreshers :
        pc[r] \in Returned =>
            LET cats == sectorReturns[r].elems
                items == ret[r].results.elems
            IN /\ \A i \in 1..Len(items) :
                     Cardinality({j \in 1..Len(cats) : cats[j].Sector = items[i].Sector}) = 1
               /\ \A j \in 1..Len(cats) :
                     /\ cats[j].TickerCount >= 1
                     /\ \E i \in 1..Len(items) : items[i].Sector = cats[j].Sector
               /\ SumCounts(cats) = Len(items)

\* C13 witness: a refresh has returned two items of two different sectors,
\* in two categories.
TwoCategoriesReturned ==
    \E r \in Refreshers :
        /\ pc[r] = "returned"
        /\ Len(ret[r].results.elems) = 2
        /\ Len(sectorReturns[r].elems) = 2
        /\ ret[r].results.elems[1].Sector # ret[r].results.elems[2].Sector

\* C14 (as claimed): in the result set a refresh has produced no category has
\* the empty name, and the valid items whose scraped sector was empty are
\* all counted in the category "Unknown".
EmptySectorGoesToUnknown ==
    \A r \in Refreshers :
        pc[r] \in Returned =>
            LET cats == sectorReturns[r].elems
                n == Cardinality({i \in 1..Len(tickers[r]) :
                                    sectors[r][i] = "" /\ OkTicker(tickers[r][i])})
            IN /\ \A j \in 1..Len(cats) : cats[j].Sector # ""
               /\ n > 0 => \E j \in 1..Len(cats) :
                               cats[j].Sector = "Unknown" /\ cats[j].TickerCount = n

\* A record a valid bar sequence gives: at least one bar, a first close that
\* is not zero, a return that is a number.
ValidRecord(rec) ==
    /\ rec.BarCount >= 1
    /\ rec.FirstClose # DecString(0)
    /\ rec.Return # NaN

\* C15: every record of the installed snapshot, and of the result set a
\* refresh has returned, is valid, and it is the record of a ticker for which
\* the calculator did not fail.
InstalledRecordsValid ==
    /\ \A i \in 1..Len(installed.elems) :
         ValidRecord(installed.elems[i]) /\ OkTicker(installed.elems[i].Ticker)
    /\ \A r \in Refreshers :
         pc[r] \in Returned =>
             \A i \in 1..Len(ret[r].results.elems) :
                 /\ ValidRecord(ret[r].results.elems[i])
                 /\ OkTicker(ret[r].results.elems[i].Ticker)

\* C15 witness: a snapshot with a record is installed by a refresh for which
\* the calculator failed on another item.
InstalledAfterCalculatorFailure ==
    \E r \in Refreshers :
        /\ pc[r] = "respond"
        /\ installed = ret[r].results
        /\ installed.elems # <<>>
        /\ errs[r] # <<>>

\* C16 (as claimed): a run on zero bars fails with the error "no data" and a
\* run on bars whose first close is zero fails with another error.
CalcErrorsDistinguished ==
    (mtd # NoMTD /\ ~answer.fail) =>
        /\ Len(answer.bars) = 0 => mtd.err = "no data"
        /\ (Len(answer.bars) > 0 /\ answer.bars[1] = 0) =>
               mtd.err \notin {NoErr, "no data"}

\* C16 (amended): a run whose request did not fail ends in the error
\* "no data", with a NaN return, exactly when there is no bar or the first
\* close is zero: the two conditions give one and the same error.
CalcOneErrorForBoth ==
    (mtd # NoMTD /\ ~answer.fail) =>
        /\ (Len(answer.bars) = 0 \/ answer.bars[1] = 0) <=> mtd.err = "no data"
        /\ mtd.err = "no data" => mtd.res.Return = NaN
        /\ mtd.err \in {NoErr, "no data"}

\* C16 witness: the calculator has run on bars whose first close is zero.
CalcRanOnZeroFirstClose ==
    /\ mtd # NoMTD
    /\ ~answer.fail
    /\ Len(answer.bars) > 1
    /\ answer.bars[1] = 0
    /\ mtd.err # NoErr

\* C17: a run on a bar sequence that is not empty and whose first close is
\* not zero succeeds with firstClose the first bar's close, lastClose the
\* last bar's close, barCount the number of bars and a return r with
\* (r + 1) * firstClose = lastClose; one bar gives firstClose = lastClose and
\* a return of zero.
CalcRecordFromBars ==
    (mtd # NoMTD /\ ~answer.fail /\ Len(answer.bars) > 0 /\ answer.bars[1] # 0) =>
        LET b == answer.bars
            r == mtd.res.Return
        IN /\ mtd.err = NoErr
           /\ mtd.res.FirstClose = b[1]
           /\ mtd.res.LastClose = b[Len(b)]
           /\ mtd.res.BarCount = Len(b)
           /\ r.den > 0
           /\ (r.num + r.den) * b[1] = b[Len(b)] * r.den
           /\ Len(b) = 1 => (r = RatZero /\ mtd.res.FirstClose = mtd.res.LastClose)

\* C17 witness: the calculator has run on three bars, the last close
\* different from the first and from the second.
CalcRanOnThreeBars ==
    /\ mtd # NoMTD
    /\ ~answer.fail
    /\ Len(answer.bars) = 3
    /\ answer.bars[1] # 0
    /\ answer.bars[3] # answer.bars[1]
    /\ answer.bars[3] # answer.bars[2]
    /\ mtd.err = NoErr

\* The request's year, month and day pass handleRefresh's validation.
GivenYear == ParseYear(query.year) # 0
GivenMonth == ParseMonth(query.month) # 0
GivenDay == ParseDay(query.day) # 0
\* The date one month before now, as the default computes it.
DefaultOfNow == AddDate(now, 0, -1, 0)

\* C18 (as claimed): once the window of a request is computed, each
\* parameter that was absent, not a number or out of range has been given
\* its default, the year, the month or the day of the default date.
EachInvalidParameterDefaulted ==
    wpc = "ranged" =>
        /\ ~GivenYear => args.year = DefaultOfNow.y
        /\ ~GivenMonth => args.month = DefaultOfNow.m
        /\ ~GivenDay => args.day = DefaultOfNow.d

\* C19 (as claimed): the window of a request with a valid year, month and
\* day starts at that year, month and day, and the default was not computed.
WindowStartsAtGivenParameters ==
    (wpc = "ranged" /\ GivenYear /\ GivenMonth /\ GivenDay) =>
        /\ window.start = [y |-> ParseYear(query.year),
                           m |-> ParseMonth(query.month),
                           d |-> ParseDay(query.day)]
        /\ args.lastMonth = NoDate

\* C19 (amended): with a valid year, month and day the default is not
\* computed; the window starts at that date when the month has such a day,
\* and as many days into the next month as the day exceeds the month's
\* length otherwise.  The default is computed exactly when the year or the
\* month is absent or invalid.
WindowStartsAtGivenDate ==
    wpc = "ranged" =>
        LET y == ParseYear(query.year)
            m == ParseMonth(query.month)
            d == ParseDay(query.day)
        IN /\ (GivenYear /\ GivenMonth /\ GivenDay) =>
                 /\ args.lastMonth = NoDate
                 /\ d <= DaysIn(y, m) => window.start = [y |-> y, m |-> m, d |-> d]
                 /\ d > DaysIn(y, m) =>
                        window.start = [y |-> IF m = 12 THEN y + 1 ELSE y,
                                        m |-> IF m = 12 THEN 1 ELSE m + 1,
                                        d |-> d - DaysIn(y, m)]
           /\ args.lastMonth # NoDate <=> (~GivenYear \/ ~GivenMonth)

\* C19 witness: the window of a request for 29 February 2024 is computed.
WindowOfLeapDayComputed ==
    /\ wpc = "ranged"
    /\ query = [year |-> <<"2", "0", "2", "4">>, month |-> <<"2">>, day |-> <<"2", "9">>]
    /\ window.start = [y |-> 2024, m |-> 2, d |-> 29]

\* C20 (as claimed): the window of a request without parameters starts in
\* the calendar month before the month of the current date.
DefaultWindowInPreviousMonth ==
    (wpc = "ranged" /\ query = NoQuery) =>
        /\ window.start.m = (IF now.m = 1 THEN 12 ELSE now.m - 1)
        /\ window.start.y = (IF now.m = 1 THEN now.y - 1 ELSE now.y)

\* C21 (as claimed): what the results endpoint writes is never an error and
\* never null: it is an array, the empty one when no refresh has installed a
\* record.
ResultsAlwaysAnArray ==
    rpc["handleAPI"] = "reading" =>
        LET body == EncodeJSON(robs["handleAPI"].val)
        IN /\ ~body.err
           /\ ~body.null
           /\ installed.elems = <<>> => body.array = <<>>

\* The jobs a refresh sends, one per scraped ticker.
JobsOf(r) == [i \in 1..Len(tickers[r]) |-> [ticker |-> tickers[r][i], sector |-> sectors[r][i]]]

\* C22: with two refreshes in flight, each that has returned has fetched
\* every one of its own items and returns the records of all its valid
\* items; whenever no install is under way the stored results are, whole,
\* the result of the install that finished last; and once both refreshes
\* have answered, that is the result of one of the two.
OverlappingRefreshesLastWins ==
    /\ ~muWriter => View(sresults) = [torn |-> FALSE, val |-> installed]
    /\ \A r \in Refreshers :
         pc[r] \in Returned =>
             /\ calls[r] = SeqToBag(JobsOf(r))
             /\ SeqToBag([i \in 1..Len(ret[r].results.elems) |->
                             ret[r].results.elems[i].Ticker])
                  = SeqToBag(SelectSeq(tickers[r], OkTicker))
    /\ (\A r \in Refreshers : pc[r] = "idle" /\ resp[r].success) =>
           \E r \in Refreshers : installed = ret[r].results

\* C22 witness: one refresh is storing its result while the other, with a
\* different result, waits for the lock to install its own.
InstallRace ==
    \E r, q \in Refreshers :
        /\ pc[r] = "store_len"
        /\ pc[q] = "lock"
        /\ ret[r].results.elems # <<>>
        /\ ret[q].results.elems # <<>>
        /\ ret[r].results # ret[q].results

\* C23 (as claimed): the count the OnError of a refresh logs and compares
\* with maxErrors is the count of its own errors, one at its first error,
\* whatever another refresh does.
ErrorCountPerInvocation ==
    \A r \in Refreshers : pc[r] = "visit_failed" => seenErrors[r] = 1

\* C24: at every moment of a refresh the fetches in flight are at most the
\* workers of its pool, and the pool has min(2 x NumCPU, maxWorkers) workers
\* or fewer.
FetchesBoundedByPool ==
    \A r \in Refreshers :
        /\ BagCardinality(busy[r]) <= Workers
        /\ idle[r] + BagCardinality(busy[r]) <= Workers
        /\ Workers = Min(2 * NumCPU, 10)

\* C24 witness: every worker of the pool is fetching while jobs are queued.
PoolSaturated ==
    \E r \in Refreshers :
        /\ BagCardinality(busy[r]) = Workers
        /\ idle[r] = 0
        /\ Len(jobs[r]) > 1

Dropped(r) == (sendIdx[r] - 1) - Len(jobs[r]) - BagCardinality(calls[r])

\* C26: once the context of a call of ProcessInParallel is done, no step
\* starts an invocation of processFunc: the items given to it and the items
\* inside it do not grow, and an item received from then on is dropped.
NoWorkAfterCancellation ==
    [][\A r \in Refreshers :
          (ctx[r] = "deadline" /\ ctx'[r] = "deadline") =>
              /\ calls'[r] = calls[r]
              /\ BagCardinality(busy'[r]) <= BagCardinality(busy[r])]_vars

\* C26 witness: the call has returned with the context done, a worker has
\* received an item and dropped it, and not every item was processed.
ItemsAbandonedAfterCancellation ==
    \E r \in Refreshers :
        /\ ctx[r] = "deadline"
        /\ pc[r] = "returned"
        /\ Dropped(r) > 0
        /\ BagCardinality(calls[r]) < Len(tickers[r])

\* C27: from the moment the results of a refresh are sorted and averaged,
\* every item has been sent, no item is queued or inside the work function,
\* no result waits in the results channel, and the results collected are as
\* many as the items.  For ProcessInParallel the same holds once it has
\* returned, but for a dispatch ended by the context: that call returns no
\* per-item result at all, every item is abandoned.
AggregationAfterBarrier ==
    \A r \in Refreshers :
        pc[r] \in Returned \cup {"par_done"} =>
            IF ctx[r] = "none"
            THEN /\ sendIdx[r] = Len(tickers[r]) + 1
                 /\ jobs[r] = <<>>
                 /\ busy[r] = EmptyBag
                 /\ resultsCh[r] = <<>>
                 /\ Collected(r) = Len(tickers[r])
            ELSE \/ /\ busy[r] = EmptyBag
                    /\ resultsCh[r] = <<>>
                    /\ wg[r] = 0
                    /\ resultsClosed[r] = "closed"
                 \/ /\ resultSlice[r] = NilSlice
                    /\ errs[r] = <<DeadlineExceeded>>
                    /\ ctx[r] = "deadline"

\* C27 witness: the results of a list of MaxTickers items are sorted, after
\* each item went through the work function.
AggregatedAfterAllItems ==
    \E r \in Refreshers :
        /\ pc[r] = "returned"
        /\ Len(tickers[r]) = MaxTickers
        /\ BagCardinality(calls[r]) = MaxTickers
        /\ ctx[r] = "none"

\* C28 as claimed: the items getMTDResults returns are in one order whatever
\* the interleaving: by return, largest first, and items of equal return in
\* the order of the ticker list.
RankedOrderDeterministic ==
    \A r \in Refreshers :
        pc[r] = "returned" =>
            LET e == ret[r].results.elems IN
            \A i, j \in 1..Len(e) :
                i < j =>
                    \/ RatGT(e[i].Return, e[j].Return)
                    \/ /\ e[i].Return = e[j].Return
                       /\ IndexOf(tickers[r], e[i].Ticker) <= IndexOf(tickers[r], e[j].Ticker)

\* The workers of the refresh have been started and its call has not returned.
PoolRunning(r) == pc[r] \in {"dispatch", "gather", "par_done", "collect"}
\* No worker of the refresh is left, waiting or inside the work function.
WorkersExited(r) == idle[r] = 0 /\ busy[r] = EmptyBag /\ wg[r] = 0

\* C29: once the workers of a refresh are started, the call returns to its
\* caller and every worker exits, whatever the interleaving and whether or
\* not the context ends meanwhile (or the process has exited).
PoolTerminates ==
    \A r \in Refreshers :
        /\ PoolRunning(r) ~> (~alive \/ pc[r] = "returned")
        /\ PoolRunning(r) ~> (~alive \/ (~PoolRunning(r) /\ WorkersExited(r)))

\* C29 witness: the context ended while items were being processed, the
\* call went on to read results until they were closed and returned, and
\* every worker has exited.
ReturnedAfterCancelledProcessing ==
    \E r \in Refreshers :
        /\ pc[r] = "returned"
        /\ ctx[r] = "deadline"
        /\ resultsClosed[r] = "closed"
        /\ WorkersExited(r)
        /\ Dropped(r) > 0

\* The items of the list whose work returns an error.
FailingItems(items) == {i \in 1..Len(items) : processFunc(items[i]).err # NoErr}

\* C30: when getMTDResults has returned, the valid records and the errors
\* collected are together as many as the tickers, and their tickers are the
\* tickers of the list, each as often as the list has it; when
\* ProcessInParallel has returned with its context never done, its errors are
\* as many as the items whose work returned an error.
ItemsAccountedOnce ==
    \A r \in Refreshers :
        /\ (pc[r] \in Returned /\ ctx[r] = "none") =>
               LET valid == ret[r].results.elems IN
               /\ Len(valid) + Len(errs[r]) = Len(tickers[r])
               /\ SeqToBag([i \in 1..Len(valid) |-> valid[i].Ticker])
                      (+) SeqToBag(TickersOf(errs[r]))
                   = SeqToBag(tickers[r])
        /\ (pc[r] = "par_done" /\ ctx[r] = "live") =>
               Len(errs[r]) = Cardinality(FailingItems(tickers[r]))

\* C30 witness: getMTDResults has returned over MaxTickers tickers with a
\* valid record and a collected error.
ReturnedWithRecordAndError ==
    \E r \in Refreshers :
        /\ pc[r] = "returned"
        /\ ctx[r] = "none"
        /\ Len(tickers[r]) = MaxTickers
        /\ Len(ret[r].results.elems) >= 1
        /\ Len(errs[r]) >= 1

\* C31 (as claimed): the window of a request with a valid year and month and
\* a day that is absent, not a number or out of range starts inside that
\* year and month, and the year and the month given are the ones used.
WindowInRequestedMonth ==
    (wpc = "ranged" /\ GivenYear /\ GivenMonth /\ ~GivenDay) =>
        /\ args.year = ParseYear(query.year)
        /\ args.month = ParseMonth(query.month)
        /\ window.start.y = ParseYear(query.year)
        /\ window.start.m = ParseMonth(query.month)
====
